---- MODULE Spec2Model ----
(***************************************************************************)
(* A model of web_server.py: a single-threaded static file server.         *)
(* MyHandler inherits its request handling from SimpleHTTPRequestHandler   *)
(* and overrides log_message; the main program changes directory, binds an *)
(* HTTPServer and runs serve_forever until a KeyboardInterrupt.            *)
(*                                                                         *)
(* A URL path or a file name is the sequence of its '/'-separated pieces:  *)
(* "/a/b" is <<"", "a", "b">>, "/" is <<"", "">>, "../x" is <<"..", "x">>. *)
(* An absolute file system path is the sequence of its component names,    *)
(* <<>> being "/".                                                         *)
(***************************************************************************)
EXTENDS Naturals, Integers, Sequences, FiniteSets, TLC

(* ------------------------------ bounds -------------------------------- *)

\* The longest request path, in '/'-separated pieces.
MaxSegs == 3

\* The number of client connections a behaviour makes.
MaxConns == 2

\* The number of interrupt signals a behaviour delivers.
MaxInterrupts == 2

(* ------------------------- program constants -------------------------- *)

\* os.chdir('/home/user/webapp')
Root == <<"home", "user", "webapp">>

\* The working directory the process is started in.
StartDir == <<"home", "user">>

port == 8000

BindAddress == "0.0.0.0"

(* ----------------------------- sequences ------------------------------ *)

Last(s) == s[Len(s)]

Front(s) == SubSeq(s, 1, Len(s) - 1)

IsPrefix(p, s) == Len(p) <= Len(s) /\ SubSeq(s, 1, Len(p)) = p

RECURSIVE SeqsUpTo(_, _)
SeqsUpTo(S, n) ==
    IF n = 0 THEN {<<>>}
    ELSE LET shorter == SeqsUpTo(S, n - 1)
         IN shorter \cup {Append(s, x) : s \in shorter, x \in S}

(* --------------------------- the file system -------------------------- *)

Dir == [kind |-> "dir", bytes |-> ""]

File(b) == [kind |-> "file", bytes |-> b]

\* What exists whether or not the serving root does; /home/user/outside is
\* the file a traversal out of the root would reach.
BaseDisk ==
    (<<>> :> Dir) @@ (<<"home">> :> Dir) @@ (<<"home", "user">> :> Dir)
    @@ (<<"home", "user", "outside">> :> File("secret"))

\* The serving root with its subdirectory sub.
RootDisk ==
    BaseDisk @@ (Root :> Dir) @@ (Root \o <<"sub">> :> Dir)
    @@ (Root \o <<"sub", "outside">> :> File("sub-outside"))

RootIndex == Root \o <<"index.html">> :> File("Hello")

RootOutside == Root \o <<"outside">> :> File("public")

SubIndexHtml == Root \o <<"sub", "index.html">> :> File("sub-index-html")

SubIndexHtm == Root \o <<"sub", "index.htm">> :> File("sub-index-htm")

\* The file systems the server is started on: every directory with and
\* without an index.html, sub with only an index.htm, and the root with and
\* without a file named like the one outside it.
Disks ==
    {RootDisk @@ RootIndex @@ RootOutside @@ SubIndexHtml @@ SubIndexHtm,
     RootDisk @@ SubIndexHtm,
     RootDisk @@ RootIndex,
     RootDisk @@ RootOutside @@ SubIndexHtml}

NoEnt == [ok |-> FALSE, path |-> <<>>]

\* The kernel's path walk from directory cur: "" and "." stay, ".." goes up,
\* a name goes down, and every piece is looked up in a directory.
RECURSIVE Walk(_, _, _)
Walk(d, cur, rest) ==
    IF cur \notin DOMAIN d THEN NoEnt
    ELSE IF rest = <<>> THEN [ok |-> TRUE, path |-> cur]
    ELSE IF d[cur].kind # "dir" THEN NoEnt
    ELSE LET c == Head(rest)
         IN IF c \in {"", "."} THEN Walk(d, cur, Tail(rest))
            ELSE IF c = ".." THEN Walk(d, IF cur = <<>> THEN cur ELSE Front(cur), Tail(rest))
            ELSE Walk(d, Append(cur, c), Tail(rest))

\* A file name as translate_path builds it: the pieces below "/", and
\* whether it ends in "/".
Lookup(d, name) ==
    LET r == Walk(d, <<>>, name.segs)
    IN IF r.ok /\ name.slash /\ d[r.path].kind # "dir" THEN NoEnt ELSE r

IsDirName(d, name) == Lookup(d, name).ok /\ d[Lookup(d, name).path].kind = "dir"

IsFileName(d, name) == Lookup(d, name).ok /\ d[Lookup(d, name).path].kind = "file"

\* os.path.join(path, word) for a word without "/".
JoinName(name, word) == [segs |-> Append(name.segs, word), slash |-> FALSE]

\* os.listdir(path)
Children(d, dir) == {Last(p) : p \in {q \in DOMAIN d : Len(q) = Len(dir) + 1 /\ IsPrefix(dir, q)}}

(* ------------------------------ URL paths ----------------------------- *)

Pieces == {"", ".", "..", "%2e%2e", "sub", "outside"}

\* A request target is one non-empty word of the request line.
Paths == {p \in SeqsUpTo(Pieces, MaxSegs) : p # <<>> /\ p # <<"">>}

EndsWithSlash(p) == Len(p) >= 2 /\ Last(p) = ""

\* urllib.parse.unquote of one piece.
UnquotePiece(s) == IF s = "%2e%2e" THEN ".." ELSE s

\* A handler that takes the path as sent, without percent-decoding it.
Unquote_none(p) == p

\* urllib.parse.unquote, piece by piece.
Unquote(p) == [i \in 1..Len(p) |-> UnquotePiece(p[i])]

\* str.lstrip('/')
RECURSIVE LStripSlash(_)
LStripSlash(p) == IF Len(p) >= 2 /\ p[1] = "" THEN LStripSlash(Tail(p)) ELSE p

\* posixpath.normpath's loop over the pieces.
RECURSIVE NormComps(_, _, _)
NormComps(comps, new, initial) ==
    IF comps = <<>> THEN new
    ELSE LET comp == Head(comps)
             next == IF comp \in {"", "."} THEN new
                     ELSE IF comp # ".." \/ (initial = 0 /\ new = <<>>)
                             \/ (new # <<>> /\ Last(new) = "..")
                          THEN Append(new, comp)
                     ELSE IF new # <<>> THEN Front(new)
                     ELSE new
         IN NormComps(Tail(comps), next, initial)

InitialSlashes(p) ==
    IF ~(Len(p) >= 2 /\ p[1] = "") THEN 0
    ELSE IF Len(p) >= 3 /\ p[2] = "" /\ ~(Len(p) >= 4 /\ p[3] = "") THEN 2
    ELSE 1

\* posixpath.normpath
NormPath(p) ==
    LET initial == InitialSlashes(p)
        comps == NormComps(p, <<>>, initial)
    IN IF initial = 0 THEN (IF comps = <<>> THEN <<".">> ELSE comps)
       ELSE [i \in 1..initial |-> ""] \o (IF comps = <<>> THEN <<"">> ELSE comps)

\* The words translate_path joins to the directory: the non-empty pieces
\* that are neither "." nor "..".
RECURSIVE SimpleWords(_)
SimpleWords(words) ==
    IF words = <<>> THEN <<>>
    ELSE IF Head(words) \in {"", ".", ".."} THEN SimpleWords(Tail(words))
    ELSE <<Head(words)>> \o SimpleWords(Tail(words))

\* A translate_path that joins every piece normpath leaves, ".." included.
translate_path_unfiltered(p, directory) ==
    [segs |-> directory \o SelectSeq(NormPath(Unquote(p)), LAMBDA w : w # ""),
     slash |-> EndsWithSlash(p)]

\* SimpleHTTPRequestHandler.translate_path, with self.directory = directory.
translate_path(p, directory) ==
    [segs |-> directory \o SimpleWords(NormPath(Unquote(p))),
     slash |-> EndsWithSlash(p)]

(* ------------------------------ requests ------------------------------ *)

Versions == {"HTTP/1.0", "HTTP/1.1", "HTTP/2.0", "FTP/1.0"}

\* What the handler reads from a connection: nothing (the client closed it),
\* a line longer than 65536 bytes, or a request line of `words`
\* blank-separated words: the command, the path and, last, the version. ims
\* says that the headers hold an If-Modified-Since not earlier than the
\* file's modification time, and no If-None-Match.
Line(n, c, p, v, i) ==
    [read |-> "line", words |-> n, command |-> c, path |-> p, version |-> v, ims |-> i]

Eof == [Line(0, "", <<"", "">>, "", FALSE) EXCEPT !.read = "eof"]

TooLong == [Line(0, "", <<"", "">>, "", FALSE) EXCEPT !.read = "toolong"]

SmallPaths == {<<"", "">>, <<"", "index.html">>, <<"", "sub">>}

\* The requests a later connection may send when it does not repeat the
\* one before it.
SmallRequests == {Line(3, "GET", p, "HTTP/1.1", FALSE) : p \in SmallPaths}

Requests ==
    {Line(3, c, p, "HTTP/1.1", FALSE) : c \in {"GET", "HEAD"}, p \in Paths}
    \cup {Line(3, c, p, v, i) : c \in {"GET", "HEAD", "POST"}, p \in SmallPaths,
                                v \in Versions, i \in BOOLEAN}
    \cup {Line(n, c, <<"", "">>, "HTTP/1.0", FALSE) : n \in {0, 1, 2, 4}, c \in {"GET", "HEAD"}}
    \cup {Eof, TooLong}

\* What the environment may do to the file system calls of one request.
Faults == {"none", "open", "read", "listdir"}

(* ----------------------------- the handler ---------------------------- *)

NoBody == [kind |-> "none", bytes |-> "", entries |-> {}]

FileBody(b) == [kind |-> "file", bytes |-> b, entries |-> {}]

ErrorBody == [kind |-> "error", bytes |-> "", entries |-> {}]

\* list_directory's page: a link for every name, with "/" after a directory.
ListingBody(d, dir) ==
    [kind |-> "listing", bytes |-> "",
     entries |-> {[name |-> n, dir |-> d[Append(dir, n)].kind = "dir"] : n \in Children(d, dir)}]

\* The exchange on one connection: the status and body sent, the Location
\* header, the file or directory read (src), the number of log_message
\* calls, whether the response was written to its end, whether an exception
\* left the handler, and the fault that struck.
NewHandler ==
    [status |-> 0, body |-> NoBody, location |-> <<>>, src |-> NoEnt, logs |-> 0,
     complete |-> TRUE, raised |-> FALSE, fault |-> "none"]

\* MyHandler.log_message: one line written to sys.stdout and flushed.
log_message(h) == [h EXCEPT !.logs = @ + 1]

\* BaseHTTPRequestHandler.log_request
log_request(h) == log_message(h)

\* BaseHTTPRequestHandler.log_error
log_error(h) == log_message(h)

\* BaseHTTPRequestHandler.send_response
send_response(h, code) == [log_request(h) EXCEPT !.status = code]

\* A send_error that leaves the logging to send_response.
send_error_nolog(h, code, command) ==
    [send_response(h, code) EXCEPT !.body = IF command # "HEAD" THEN ErrorBody ELSE NoBody]

\* BaseHTTPRequestHandler.send_error; no body for HEAD.
send_error(h, code, command) ==
    [send_response(log_error(h), code) EXCEPT
        !.body = IF command # "HEAD" THEN ErrorBody ELSE NoBody]

\* SimpleHTTPRequestHandler.list_directory
list_directory(h, d, name, command, fault) ==
    IF fault = "listdir"
    THEN [send_error(h, 404, command) EXCEPT !.fault = "listdir"]
    ELSE [send_response(h, 200) EXCEPT
            !.src = Lookup(d, name),
            !.body = ListingBody(d, Lookup(d, name).path)]

\* send_head from "ctype = self.guess_type(path)" on: open the file, answer
\* 304 or 200.
send_file(h, d, name, ims, command, fault) ==
    IF name.slash THEN send_error(h, 404, command)
    ELSE IF ~Lookup(d, name).ok \/ d[Lookup(d, name).path].kind = "dir"
    THEN send_error(h, 404, command)
    ELSE IF fault = "open" THEN [send_error(h, 404, command) EXCEPT !.fault = "open"]
    ELSE IF ims THEN [send_response(h, 304) EXCEPT !.src = Lookup(d, name)]
    ELSE [send_response(h, 200) EXCEPT
            !.src = Lookup(d, name),
            !.body = FileBody(d[Lookup(d, name).path].bytes)]

\* A send_head that serves a directory's index or listing whether or not
\* the request path ends in "/".
send_head_noredirect(h, d, directory, path, ims, command, fault) ==
    LET name == translate_path(path, directory)
        html == JoinName(name, "index.html")
        htm == JoinName(name, "index.htm")
    IN IF IsDirName(d, name)
       THEN IF IsFileName(d, html) THEN send_file(h, d, html, ims, command, fault)
            ELSE IF IsFileName(d, htm) THEN send_file(h, d, htm, ims, command, fault)
            ELSE list_directory(h, d, name, command, fault)
       ELSE send_file(h, d, name, ims, command, fault)

\* SimpleHTTPRequestHandler.send_head
send_head(h, d, directory, path, ims, command, fault) ==
    LET name == translate_path(path, directory)
        html == JoinName(name, "index.html")
        htm == JoinName(name, "index.htm")
    IN IF IsDirName(d, name)
       THEN IF ~EndsWithSlash(path)
            THEN [send_response(h, 301) EXCEPT !.location = Append(path, "")]
            ELSE IF IsFileName(d, html) THEN send_file(h, d, html, ims, command, fault)
            ELSE IF IsFileName(d, htm) THEN send_file(h, d, htm, ims, command, fault)
            ELSE list_directory(h, d, name, command, fault)
       ELSE send_file(h, d, name, ims, command, fault)

\* A do_GET that swallows the error of a failed read.
do_GET_swallow(h, d, directory, path, ims, fault) ==
    LET sent == send_head(h, d, directory, path, ims, "GET", fault)
    IN IF sent.body.kind = "file" /\ fault = "read"
       THEN [sent EXCEPT !.complete = FALSE, !.fault = "read"]
       ELSE sent

\* SimpleHTTPRequestHandler.do_GET: send_head, then copyfile, which a read
\* error leaves part-way with the exception propagating.
do_GET(h, d, directory, path, ims, fault) ==
    LET sent == send_head(h, d, directory, path, ims, "GET", fault)
    IN IF sent.body.kind = "file" /\ fault = "read"
       THEN [sent EXCEPT !.complete = FALSE, !.raised = TRUE, !.fault = "read"]
       ELSE sent

\* SimpleHTTPRequestHandler.do_HEAD: the headers of do_GET and no body.
do_HEAD(h, d, directory, path, ims, fault) ==
    [send_head(h, d, directory, path, ims, "HEAD", fault) EXCEPT !.body = NoBody]

VersionNumber(v) ==
    CASE v = "HTTP/1.0" -> <<1, 0>>
      [] v = "HTTP/1.1" -> <<1, 1>>
      [] v = "HTTP/2.0" -> <<2, 0>>
      [] OTHER -> <<0, 0>>

\* BaseHTTPRequestHandler.parse_request: ok with the command and the path,
\* or not ok after the error response, if any, has been sent.
parse_request(h, req) ==
    LET bad(code) == [ok |-> FALSE, h |-> send_error(h, code, ""), path |-> req.path]
    IN IF req.words = 0 THEN [ok |-> FALSE, h |-> h, path |-> req.path]
       ELSE IF req.words >= 3 /\ VersionNumber(req.version) = <<0, 0>> THEN bad(400)
       ELSE IF req.words >= 3 /\ VersionNumber(req.version)[1] >= 2 THEN bad(505)
       ELSE IF ~(2 <= req.words /\ req.words <= 3) THEN bad(400)
       ELSE IF req.words = 2 /\ req.command # "GET" THEN bad(400)
       ELSE [ok |-> TRUE, h |-> h,
             path |-> IF Len(req.path) >= 3 /\ req.path[1] = "" /\ req.path[2] = ""
                      THEN <<"">> \o LStripSlash(req.path)
                      ELSE req.path]

\* BaseHTTPRequestHandler.handle_one_request, with handle around it: the
\* connection closes after one request (protocol_version is HTTP/1.0).
handle_one_request(d, directory, req, fault) ==
    LET h == NewHandler
        parsed == parse_request(h, req)
    IN IF req.read = "toolong" THEN send_error(h, 414, "")
       ELSE IF req.read = "eof" THEN h
       ELSE IF ~parsed.ok THEN parsed.h
       ELSE IF req.command = "GET" THEN do_GET(parsed.h, d, directory, parsed.path, req.ims, fault)
       ELSE IF req.command = "HEAD" THEN do_HEAD(parsed.h, d, directory, parsed.path, req.ims, fault)
       ELSE send_error(parsed.h, 501, req.command)

(* ------------------------------ the state ----------------------------- *)

VARIABLES
    pc,             \* where the main program is
    exitStatus,     \* the exit status, -1 while the process runs
    cwd,            \* the working directory
    disk,           \* the file system
    portFree,       \* whether port 8000 can be bound
    sock,           \* the listening socket: "none", "listening" or "closed"
    server_address, \* what the socket is bound to, <<>> before
    out,            \* the lines the main program printed
    unflushed,      \* the lines in sys.stdout's buffer
    backlog,        \* the connections waiting to be accepted, oldest first
    nextConn,       \* the next connection's number
    cur,            \* the connection being handled, 0 if none
    acceptSeq,      \* the connections accepted, in order
    closeSeq,       \* the connections closed, in order
    last,           \* the last exchange: connection, request, handler, and
                    \* whether the request repeats the one before it
    interrupts,     \* the interrupt signals delivered
    intAt,          \* where the first interrupt found the program
    calls           \* how often chdir and bind were called

vars == <<pc, exitStatus, cwd, disk, portFree, sock, server_address, out, unflushed,
          backlog, nextConn, cur, acceptSeq, closeSeq, last, interrupts, intAt, calls>>

NoExchange == [conn |-> 0, req |-> Eof, h |-> NewHandler, repeat |-> FALSE]

Init ==
    /\ pc = "chdir"
    /\ exitStatus = -1
    /\ cwd = StartDir
    /\ disk \in Disks \cup {BaseDisk}
    /\ portFree \in BOOLEAN
    /\ sock = "none"
    /\ server_address = <<>>
    /\ out = <<>>
    /\ unflushed = 0
    /\ backlog = <<>>
    /\ nextConn = 1
    /\ cur = 0
    /\ acceptSeq = <<>>
    /\ closeSeq = <<>>
    /\ last = NoExchange
    /\ interrupts = 0
    /\ intAt = ""
    /\ calls = [chdir |-> 0, bind |-> 0]

(* -------------------------- the main program -------------------------- *)

\* An exception nothing catches: the traceback, and a non-zero exit status.
Uncaught ==
    /\ pc' = "exited"
    /\ exitStatus' = 1

\* A chdir whose failure is ignored.
Chdir_ignored ==
    /\ pc = "chdir"
    /\ calls' = [calls EXCEPT !.chdir = @ + 1]
    /\ cwd' = IF IsDirName(disk, [segs |-> Root, slash |-> FALSE]) THEN Root ELSE cwd
    /\ pc' = "bind"
    /\ UNCHANGED <<exitStatus, disk, portFree, sock, server_address, out, unflushed, backlog,
                   nextConn, cur, acceptSeq, closeSeq, last, interrupts, intAt>>

\* os.chdir('/home/user/webapp')
Chdir ==
    /\ pc = "chdir"
    /\ calls' = [calls EXCEPT !.chdir = @ + 1]
    /\ IF IsDirName(disk, [segs |-> Root, slash |-> FALSE])
       THEN /\ cwd' = Root
            /\ pc' = "bind"
            /\ UNCHANGED exitStatus
       ELSE /\ Uncaught
            /\ UNCHANGED cwd
    /\ UNCHANGED <<disk, portFree, sock, server_address, out, unflushed, backlog, nextConn,
                   cur, acceptSeq, closeSeq, last, interrupts, intAt>>

\* server = HTTPServer(('0.0.0.0', port), MyHandler): the socket is made,
\* bound and listening, or closed again when bind fails.
Bind ==
    /\ pc = "bind"
    /\ calls' = [calls EXCEPT !.bind = @ + 1]
    /\ IF portFree
       THEN /\ sock' = "listening"
            /\ server_address' = <<BindAddress, port>>
            /\ pc' = "print_port"
            /\ UNCHANGED exitStatus
       ELSE /\ sock' = "closed"
            /\ Uncaught
            /\ UNCHANGED server_address
    /\ UNCHANGED <<cwd, disk, portFree, out, unflushed, backlog, nextConn, cur, acceptSeq,
                   closeSeq, last, interrupts, intAt>>

\* print(f"Server running on port {port}")
PrintPort ==
    /\ pc = "print_port"
    /\ out' = Append(out, "running")
    /\ unflushed' = unflushed + 1
    /\ pc' = "print_dir"
    /\ UNCHANGED <<exitStatus, cwd, disk, portFree, sock, server_address, backlog, nextConn,
                   cur, acceptSeq, closeSeq, last, interrupts, intAt, calls>>

\* print(f"Serving directory: {os.getcwd()}")
PrintDir ==
    /\ pc = "print_dir"
    /\ out' = Append(out, "serving")
    /\ unflushed' = unflushed + 1
    /\ pc' = "flush"
    /\ UNCHANGED <<exitStatus, cwd, disk, portFree, sock, server_address, backlog, nextConn,
                   cur, acceptSeq, closeSeq, last, interrupts, intAt, calls>>

\* sys.stdout.flush(), and into serve_forever inside the try.
Flush ==
    /\ pc = "flush"
    /\ unflushed' = 0
    /\ pc' = "select"
    /\ UNCHANGED <<exitStatus, cwd, disk, portFree, sock, server_address, out, backlog,
                   nextConn, cur, acceptSeq, closeSeq, last, interrupts, intAt, calls>>

\* A client connects: the kernel queues the connection on the listening socket.
Connect ==
    /\ sock = "listening"
    /\ pc # "exited"
    /\ nextConn <= MaxConns
    /\ backlog' = Append(backlog, nextConn)
    /\ nextConn' = nextConn + 1
    /\ UNCHANGED <<pc, exitStatus, cwd, disk, portFree, sock, server_address, out, unflushed,
                   cur, acceptSeq, closeSeq, last, interrupts, intAt, calls>>

\* TCPServer.get_request: socket.accept() takes the oldest connection.
get_request(queue) == Head(queue)

\* serve_forever: select() finds the socket readable, _handle_request_noblock
\* accepts.
Accept ==
    /\ pc = "select"
    /\ backlog # <<>>
    /\ cur' = get_request(backlog)
    /\ backlog' = SelectSeq(backlog, LAMBDA c : c # get_request(backlog))
    /\ acceptSeq' = Append(acceptSeq, get_request(backlog))
    /\ pc' = "handle"
    /\ UNCHANGED <<exitStatus, cwd, disk, portFree, sock, server_address, out, unflushed,
                   nextConn, closeSeq, last, interrupts, intAt, calls>>

\* A handle_error that lets the exception leave serve_forever.
handle_error_reraise(h) == "exited"

\* BaseServer.handle_error: the traceback goes to stderr, the loop goes on.
handle_error(h) == "shutdown"

\* finish_request -> MyHandler(request, client_address, server): setup,
\* handle, finish. An exception that leaves the handler is caught by
\* _handle_request_noblock's "except Exception".
finish_request(req, fault) ==
    LET h == handle_one_request(disk, cwd, req, fault)
    IN /\ last' = [conn |-> cur, req |-> req, h |-> h,
                   repeat |-> last.conn # 0 /\ req = last.req]
       /\ unflushed' = IF h.logs > 0 THEN 0 ELSE unflushed
       /\ pc' = IF h.raised THEN handle_error(h) ELSE "shutdown"

\* The requests the next connection may send: the first connection sends
\* any request; a later one repeats the request before it or sends one of
\* SmallRequests.
NextRequests == IF last.conn = 0 THEN Requests ELSE {last.req} \cup SmallRequests

\* A handler that changes into the directory it serves from.
Handle_chdir ==
    /\ pc = "handle"
    /\ \E req \in NextRequests, fault \in Faults : finish_request(req, fault)
    /\ cwd' = IF last'.h.src.ok /\ disk[last'.h.src.path].kind = "dir"
              THEN last'.h.src.path ELSE cwd
    /\ UNCHANGED <<exitStatus, disk, portFree, sock, server_address, out, backlog,
                   nextConn, cur, acceptSeq, closeSeq, interrupts, intAt, calls>>

\* BaseServer.process_request, up to shutdown_request.
Handle ==
    /\ pc = "handle"
    /\ \E req \in NextRequests, fault \in Faults : finish_request(req, fault)
    /\ UNCHANGED <<exitStatus, cwd, disk, portFree, sock, server_address, out, backlog,
                   nextConn, cur, acceptSeq, closeSeq, interrupts, intAt, calls>>

\* A shutdown_request that leaves the connection open.
shutdown_request_leak(closed, conn) == closed

\* TCPServer.shutdown_request: the connection is shut down and closed.
shutdown_request(closed, conn) == Append(closed, conn)

Shutdown ==
    /\ pc = "shutdown"
    /\ closeSeq' = shutdown_request(closeSeq, cur)
    /\ cur' = 0
    /\ pc' = "select"
    /\ UNCHANGED <<exitStatus, cwd, disk, portFree, sock, server_address, out, unflushed,
                   backlog, nextConn, acceptSeq, last, interrupts, intAt, calls>>

\* Where a KeyboardInterrupt is caught: inside the try around serve_forever.
InTry == {"select", "handle", "shutdown"}

\* SIGINT: KeyboardInterrupt is raised in the main thread wherever it is.
\* Inside serve_forever the bare except of _handle_request_noblock closes
\* the connection being handled and the exception reaches "except
\* KeyboardInterrupt"; anywhere else nothing catches it, and the kernel
\* closes the socket of the process that dies.
Interrupt ==
    /\ pc # "exited"
    /\ interrupts < MaxInterrupts
    /\ interrupts' = interrupts + 1
    /\ intAt' = IF interrupts = 0 THEN pc ELSE intAt
    /\ IF pc \in InTry
       THEN /\ pc' = "except"
            /\ closeSeq' = IF cur # 0 THEN shutdown_request(closeSeq, cur) ELSE closeSeq
            /\ cur' = 0
            /\ UNCHANGED <<exitStatus, sock>>
       ELSE /\ Uncaught
            /\ sock' = IF sock = "listening" THEN "closed" ELSE sock
            /\ UNCHANGED <<closeSeq, cur>>
    /\ last' = NoExchange
    /\ UNCHANGED <<cwd, disk, portFree, server_address, out, unflushed, backlog,
                   nextConn, acceptSeq, calls>>

\* print("\nServer stopped.")
PrintStopped ==
    /\ pc = "except"
    /\ out' = Append(out, "stopped")
    /\ unflushed' = unflushed + 1
    /\ pc' = "close"
    /\ UNCHANGED <<exitStatus, cwd, disk, portFree, sock, server_address, backlog, nextConn,
                   cur, acceptSeq, closeSeq, last, interrupts, intAt, calls>>

\* server.server_close(), and the end of the script: exit status 0, with
\* sys.stdout flushed by the interpreter.
ServerClose ==
    /\ pc = "close"
    /\ sock' = "closed"
    /\ unflushed' = 0
    /\ pc' = "exited"
    /\ exitStatus' = 0
    /\ UNCHANGED <<cwd, disk, portFree, server_address, out, backlog, nextConn, cur,
                   acceptSeq, closeSeq, last, interrupts, intAt, calls>>

Next ==
    \/ Chdir
    \/ Bind
    \/ PrintPort
    \/ PrintDir
    \/ Flush
    \/ Connect
    \/ Accept
    \/ Handle
    \/ Shutdown
    \/ Interrupt
    \/ PrintStopped
    \/ ServerClose

Spec == Init /\ [][Next]_vars

(* ----------------------------- properties ----------------------------- *)

\* A request has been read and answered on a connection.
Handled == last.conn # 0

\* A request line parse_request accepts: three words with an HTTP/1.x
\* version, or the two words of HTTP/0.9.
WellFormed(req) ==
    /\ req.read = "line"
    /\ \/ req.words = 3 /\ req.version \in {"HTTP/1.0", "HTTP/1.1"}
       \/ req.words = 2 /\ req.command = "GET"

Decoded(p) == [i \in 1..Len(p) |-> IF p[i] = "%2e%2e" THEN ".." ELSE p[i]]

\* Where a path leads from directory at when every ".." is followed, out
\* of the root too.
RECURSIVE Followed(_, _)
Followed(at, pieces) ==
    IF pieces = <<>> THEN at
    ELSE IF Head(pieces) \in {"", "."} THEN Followed(at, Tail(pieces))
    ELSE IF Head(pieces) = ".."
         THEN Followed(IF at = <<>> THEN at ELSE Front(at), Tail(pieces))
    ELSE Followed(Append(at, Head(pieces)), Tail(pieces))

\* The path has traversal components that resolve outside the root.
Escapes(p) == ~IsPrefix(Root, Followed(Root, Decoded(p)))

\* Where a path leads below the root when a ".." at the root stays there.
RECURSIVE Clamped(_, _)
Clamped(below, pieces) ==
    IF pieces = <<>> THEN below
    ELSE IF Head(pieces) \in {"", "."} THEN Clamped(below, Tail(pieces))
    ELSE IF Head(pieces) = ".."
         THEN Clamped(IF below = <<>> THEN below ELSE Front(below), Tail(pieces))
    ELSE Clamped(Append(below, Head(pieces)), Tail(pieces))

\* The file name under the root a request path stands for.
Target(p) == [segs |-> Root \o Clamped(<<>>, Decoded(p)), slash |-> EndsWithSlash(p)]

BytesOf(name) == disk[Lookup(disk, name).path].bytes

\* C1: whatever the request path and the files on disk, the file or
\* directory a response is read from lies beneath the serving root, and no
\* response carries the content of the file outside it.
C1_ServedBeneathRoot ==
    Handled =>
        /\ last.h.src.ok => IsPrefix(Root, last.h.src.path)
        /\ last.h.body.bytes # "secret"

\* A request whose path leaves the root was answered 200 from a file in it.
C1_Witness ==
    /\ Handled
    /\ Escapes(last.req.path)
    /\ last.h.status = 200
    /\ last.h.src.ok
    /\ last.h.body.kind = "file"

TraversalRequest ==
    /\ Handled
    /\ WellFormed(last.req)
    /\ last.req.command \in {"GET", "HEAD"}
    /\ Escapes(last.req.path)

\* C2 as claimed: a GET or HEAD whose path has traversal components that
\* resolve outside the root is answered 403 or 404.
C2_TraversalRejected == TraversalRequest => last.h.status \in {403, 404}

\* C2 amended: such a request is answered as the path with every ".." at
\* the root dropped: never 403, 404 exactly when nothing can be served at
\* that path under the root, and otherwise 200, 301 or 304 from beneath the
\* root.
C2_TraversalClamped ==
    TraversalRequest =>
        /\ last.h.status \in {200, 301, 304, 404}
        /\ last.h.status = 404 <=>
               \/ ~Lookup(disk, Target(last.req.path)).ok
               \/ last.h.fault \in {"open", "listdir"}
        /\ last.h.src.ok => IsPrefix(Root, last.h.src.path)

\* GET /../outside, or its percent-encoded form, answered 200 with the file
\* named outside in the root.
C2_Witness ==
    /\ TraversalRequest
    /\ last.h.status = 200
    /\ last.h.body = FileBody("public")

\* A GET that parse_request accepts, without If-Modified-Since and without
\* an I/O fault.
PlainGet ==
    /\ Handled
    /\ WellFormed(last.req)
    /\ last.req.command = "GET"
    /\ ~last.req.ims
    /\ last.h.fault = "none"

IndexHtml(p) == JoinName(Target(p), "index.html")

IndexHtm(p) == JoinName(Target(p), "index.htm")

\* C3 as claimed: a file gives 200 and its bytes; a directory with an
\* index.html gives 200 and that file, with or without a trailing slash; a
\* directory without index.html gives a listing of all its children; a
\* path that does not exist gives 404.
C3_ResponseByKind ==
    PlainGet =>
        LET t == Target(last.req.path)
        IN /\ IsFileName(disk, t) =>
                 last.h.status = 200 /\ last.h.body = FileBody(BytesOf(t))
           /\ IsDirName(disk, t) /\ IsFileName(disk, IndexHtml(last.req.path)) =>
                 /\ last.h.status = 200
                 /\ last.h.body = FileBody(BytesOf(IndexHtml(last.req.path)))
           /\ IsDirName(disk, t) /\ ~IsFileName(disk, IndexHtml(last.req.path)) =>
                 last.h.body = ListingBody(disk, Lookup(disk, t).path)
           /\ ~Lookup(disk, t).ok => last.h.status = 404

\* C3 amended: a file gives 200 and its bytes; a directory asked for
\* without a trailing slash gives 301 to the same path with the slash; a
\* directory asked for with it gives 200 and its index.html, else its
\* index.htm, else a listing of all its children; anything else gives 404.
C3_ResponseByKindAmended ==
    PlainGet =>
        LET p == last.req.path
            t == Target(p)
        IN IF IsFileName(disk, t)
           THEN last.h.status = 200 /\ last.h.body = FileBody(BytesOf(t)) /\ last.h.complete
           ELSE IF IsDirName(disk, t) /\ ~EndsWithSlash(p)
           THEN /\ last.h.status = 301
                /\ last.h.body = NoBody
                /\ EndsWithSlash(last.h.location)
                /\ Target(last.h.location).segs = t.segs
           ELSE IF IsDirName(disk, t) /\ IsFileName(disk, IndexHtml(p))
           THEN last.h.status = 200 /\ last.h.body = FileBody(BytesOf(IndexHtml(p)))
           ELSE IF IsDirName(disk, t) /\ IsFileName(disk, IndexHtm(p))
           THEN last.h.status = 200 /\ last.h.body = FileBody(BytesOf(IndexHtm(p)))
           ELSE IF IsDirName(disk, t)
           THEN last.h.status = 200 /\ last.h.body = ListingBody(disk, Lookup(disk, t).path)
           ELSE last.h.status = 404 /\ last.h.body = ErrorBody

\* A directory that has an index.html, asked for without the trailing
\* slash, was answered 301.
C3_Witness ==
    /\ PlainGet
    /\ IsDirName(disk, Target(last.req.path))
    /\ IsFileName(disk, IndexHtml(last.req.path))
    /\ ~EndsWithSlash(last.req.path)
    /\ last.h.status = 301

\* C4 as claimed: every answered request, whatever its status, causes
\* exactly one call of log_message.
C4_OneLogLine == (Handled /\ last.h.status # 0) => last.h.logs = 1

\* C4 amended: a request answered 200, 301 or 304 causes exactly one call
\* of log_message, a request answered with an error status exactly two
\* (log_error, then log_request), a blank request line or a connection
\* closed without one none; and no line is left unflushed while the server
\* is in its accept loop.
C4_LogLines ==
    /\ Handled =>
          last.h.logs = IF last.h.status = 0 THEN 0
                        ELSE IF last.h.status >= 400 THEN 2
                        ELSE 1
    /\ pc \in InTry => unflushed = 0

\* A 404 was logged with two lines.
C4_Witness == Handled /\ last.h.status = 404 /\ last.h.logs = 2 /\ unflushed = 0

Count(seq, x) == Cardinality({i \in 1..Len(seq) : seq[i] = x})

\* C5: once the listening socket is open, an interrupt at any later point
\* ends the process with the socket closed, "Server stopped." printed once
\* and exit status 0.
C5_InterruptStopsCleanly ==
    (pc = "exited" /\ interrupts = 1 /\ intAt \notin {"chdir", "bind"}) =>
        /\ exitStatus = 0
        /\ sock = "closed"
        /\ Count(out, "stopped") = 1

\* An interrupt inside serve_forever did end the process that way.
C5_Witness ==
    /\ pc = "exited"
    /\ interrupts = 1
    /\ intAt = "handle"
    /\ exitStatus = 0
    /\ sock = "closed"
    /\ Count(out, "stopped") = 1

\* C6: at most one connection is open at any moment, a connection is
\* accepted only after the one before it is closed, connections are
\* accepted oldest first and closed in the order they are accepted, and
\* the request read is that of the one open connection.
C6_OneAtATime ==
    /\ Len(acceptSeq) - Len(closeSeq) \in {0, 1}
    /\ closeSeq = SubSeq(acceptSeq, 1, Len(closeSeq))
    /\ cur # 0 => acceptSeq = Append(closeSeq, cur)
    /\ cur = 0 => acceptSeq = closeSeq
    /\ \A i, j \in 1..Len(acceptSeq) : i < j => acceptSeq[i] < acceptSeq[j]
    /\ (Handled /\ pc = "shutdown") => last.conn = cur

\* The second connection has been answered, the first one closed before.
C6_Witness ==
    /\ pc = "shutdown"
    /\ cur = 2
    /\ last.conn = 2
    /\ closeSeq = <<1>>

RootMissing == ~IsDirName(disk, [segs |-> Root, slash |-> FALSE])

\* C7: with the root missing or the port taken the process makes one
\* attempt and ends with a non-zero status, never reaching the accept loop
\* or the start-up lines, and until it has ended its next statement is the
\* chdir or the bind; with the root missing no socket is ever opened.
C7_StartupFailsFast ==
    /\ (RootMissing \/ ~portFree) =>
          /\ pc \in {"chdir", "bind", "exited"}
          /\ pc = "exited" => exitStatus # 0
          /\ out = <<>>
          /\ sock # "listening"
          /\ acceptSeq = <<>>
          /\ calls.chdir <= 1 /\ calls.bind <= 1
          /\ pc # "exited" => ENABLED (Chdir \/ Bind)
    /\ RootMissing => sock = "none" /\ calls.bind = 0

\* The process ended on a failed bind, with no signal involved.
C7_Witness ==
    /\ ~portFree
    /\ pc = "exited"
    /\ interrupts = 0
    /\ exitStatus = 1
    /\ calls = [chdir |-> 1, bind |-> 1]

\* C8: once in the accept loop, the server stays in it, listening, whatever
\* the outcome of a request; only an interrupt leads out.
C8_ErrorsContained ==
    [][(pc \in InTry) => ((pc' \in InTry /\ sock' = "listening")
                          \/ interrupts' = interrupts + 1)]_vars

\* The server is back at select() after a second request, whose handler
\* raised.
C8_Witness ==
    /\ pc = "select"
    /\ Handled
    /\ last.h.raised
    /\ last.conn = 2
    /\ closeSeq = <<1, 2>>

\* C9 as claimed: an I/O error while opening or reading the file gives a
\* complete response with status 500.
C9_IOError500 ==
    (Handled /\ last.h.fault \in {"open", "read"}) =>
        last.h.status = 500 /\ last.h.complete

\* C9 amended: an I/O error at open gives a complete 404 response; an I/O
\* error part-way through the body leaves the 200 response cut short, the
\* exception going to handle_error; either way the connection is then
\* closed and the server stays in its accept loop.
C9_IOErrorContained ==
    Handled =>
        /\ last.h.fault = "open" =>
              last.h.status = 404 /\ last.h.complete /\ ~last.h.raised
        /\ last.h.fault = "read" =>
              last.h.status = 200 /\ ~last.h.complete /\ last.h.raised
        /\ last.h.fault \in {"open", "read"} =>
              /\ pc \in InTry
              /\ sock = "listening"
              /\ pc # "shutdown" => Count(closeSeq, last.conn) = 1

\* A read error struck, the connection is closed and the server is at
\* select() again.
C9_Witness ==
    /\ Handled
    /\ last.h.fault = "read"
    /\ pc = "select"
    /\ Count(closeSeq, last.conn) = 1

\* C10: in the accept loop no step changes the files, the working
\* directory or the bound address, and a GET that repeats the one before
\* it gets the same status and the same body when no I/O fault strikes.
C10_NoServerStateChange ==
    [][(pc \in InTry) =>
          (disk' = disk /\ cwd' = cwd /\ server_address' = server_address
           /\ ((last'.conn # last.conn /\ last'.repeat /\ last'.req.command = "GET"
                /\ last'.h.fault = "none" /\ last.h.fault = "none")
               => (last'.h.status = last.h.status /\ last'.h.body = last.h.body)))]_vars

\* A GET was repeated on the next connection and answered 200 again.
C10_Witness ==
    /\ Handled
    /\ last.repeat
    /\ last.conn = 2
    /\ last.req.command = "GET"
    /\ last.h.status = 200
    /\ last.h.fault = "none"

====
